---- MODULE Spec2Model ----
(***************************************************************************)
(* A model of the crawlers of this repository:                             *)
(*   - site_scraper.crawler.Crawler  (asyncio.Queue + worker tasks),        *)
(*   - scraper.crawler.Crawler       (deque + worker tasks),                *)
(*   - scraper.robots.RobotsCache    (per-origin robots.txt cache).         *)
(* Every component keeps its state in one record variable (site, scr,      *)
(* rob).  A handler is an operator from a state record to the state record *)
(* after the handler has run up to its next suspension point (await): in   *)
(* asyncio nothing else runs between two suspension points of a task.      *)
(* Python >= 3.8 is assumed: asyncio.CancelledError is a BaseException and *)
(* is not caught by `except Exception`.                                    *)
(***************************************************************************)
EXTENDS Integers, Sequences, FiniteSets, TLC

VARIABLES site, scr, rob, util, sto

vars == <<site, scr, rob, util, sto>>

(***************************************************************************)
(* Bounds of the model.                                                    *)
(***************************************************************************)
Concurrency == 2        \* workers of a crawl (the `concurrency` setting)
MaxPagesBound == 2      \* max_pages ranges over 0..MaxPagesBound (0: None)
MaxDepthBound == 1      \* max_depth ranges over 0..MaxDepthBound (or None)

Range(f) == {f[i] : i \in DOMAIN f}

(***************************************************************************)
(*                    site_scraper.crawler.Crawler                         *)
(***************************************************************************)
SiteStart == "http://a.test/"

\* URLs of the crawled site, as resolve_url returns them and is_same_site accepts them.
SiteB == "http://a.test/b"

SiteD == "http://a.test/d"

SitePdf == "http://a.test/c.pdf"

SiteE == "http://a.test/e"

SiteF == "http://a.test/f"

SiteUrls == {SiteStart, SiteB, SiteD, SitePdf, SiteE, SiteF}

\* The anchors of an HTML page, in document order (a repeated anchor is written twice).
SitePages == {<<>>, <<SiteB, SiteB>>, <<SiteB, SiteD>>, <<SiteStart, SitePdf>>, <<SiteD>>}

\* A site whose pages have no anchors or link to four other pages.
SiteWidePages == {<<>>, <<SiteB, SiteD, SiteE, SiteF>>}

\* final_url.lower().endswith(".pdf")
EndsWithPdf(u) == u = SitePdf

\* Anchors as they are written in a document.
SiteSub == "http://sub.a.test/x"

SiteOther == "http://other.test/x"

HrefSiteBFrag == "http://a.test/b#top"

HrefSiteBPort == "http://a.test:80//b"

HrefSiteD == "/d"

HrefSiteEmpty == ""

SiteAnchors == {SiteSub, SiteOther, HrefSiteBFrag, HrefSiteBPort, HrefSiteD}

\* A site whose pages carry anchors to a subdomain, to a foreign site, and to its own
\* pages in several spellings.
SiteAnchorPages ==
    {<<>>, <<SiteSub, SiteOther, HrefSiteD>>, <<HrefSiteBFrag, HrefSiteEmpty, HrefSiteBPort>>,
     <<HrefSiteD, SiteStart, SiteB>>}

\* The parts urllib.parse.urlparse splits a URL into; the path is a sequence of "/"
\* and segment names.  The modelled URLs have no query and no parameters.
SiteUrl(scheme, host, port, path, frag) ==
    [scheme |-> scheme, host |-> host, port |-> port, path |-> path, frag |-> frag]

\* The text of every URL and anchor of the modelled sites, split into its parts.
SiteSplit(u) ==
    CASE u = SiteStart -> SiteUrl("http", "a.test", "", <<"/">>, "")
      [] u = SiteB -> SiteUrl("http", "a.test", "", <<"/", "b">>, "")
      [] u = SiteD -> SiteUrl("http", "a.test", "", <<"/", "d">>, "")
      [] u = SitePdf -> SiteUrl("http", "a.test", "", <<"/", "c.pdf">>, "")
      [] u = SiteE -> SiteUrl("http", "a.test", "", <<"/", "e">>, "")
      [] u = SiteF -> SiteUrl("http", "a.test", "", <<"/", "f">>, "")
      [] u = SiteSub -> SiteUrl("http", "sub.a.test", "", <<"/", "x">>, "")
      [] u = SiteOther -> SiteUrl("http", "other.test", "", <<"/", "x">>, "")
      [] u = HrefSiteBFrag -> SiteUrl("http", "a.test", "", <<"/", "b">>, "top")
      [] u = HrefSiteBPort -> SiteUrl("http", "a.test", "80", <<"/", "/", "b">>, "")
      [] u = HrefSiteD -> SiteUrl("", "", "", <<"/", "d">>, "")

\* The text of a URL given by its parts.
SiteText(parts) == CHOOSE u \in SiteUrls \cup SiteAnchors : SiteSplit(u) = parts

SchemeLower(scheme) ==
    CASE scheme = "HTTP" -> "http"
      [] scheme = "HTTPS" -> "https"
      [] OTHER -> scheme

\* urllib.parse.urlparse: the scheme is returned in lower case, the rest as written.
UrlParse(u) == [u EXCEPT !.scheme = SchemeLower(@)]

\* re.sub(r"/+", "/", path)
RECURSIVE CollapseSlashes(_)
CollapseSlashes(path) ==
    IF Len(path) < 2 THEN path
    ELSE IF path[1] = "/" /\ path[2] = "/" THEN CollapseSlashes(Tail(path))
         ELSE <<Head(path)>> \o CollapseSlashes(Tail(path))

\* utils.canonicalize_url: fragment dropped, default port dropped, runs of "/" in the
\* path collapsed, an empty path replaced by "/".
CanonicalizeUrl(u) ==
    LET parsed == UrlParse([u EXCEPT !.frag = ""])
    IN [parsed EXCEPT !.port = IF \/ parsed.scheme = "http" /\ parsed.port = "80"
                                  \/ parsed.scheme = "https" /\ parsed.port = "443"
                               THEN "" ELSE @,
                      !.path = IF CollapseSlashes(@) = <<>> THEN <<"/">>
                               ELSE CollapseSlashes(@)]

\* utils.is_same_site: same scheme and same netloc (host and port as written).
IsSameSite(base, target) ==
    LET b == UrlParse(base)
        t == UrlParse(target)
    IN /\ b.scheme \in {"http", "https"}
       /\ b.scheme = t.scheme
       /\ b.host = t.host /\ b.port = t.port

\* urllib.parse.urljoin for the modelled anchors: an anchor with a scheme stands for
\* itself, an absolute path replaces the path of the base.
SiteUrlJoin(base, href) ==
    IF href.scheme # "" THEN UrlParse(href)
    ELSE [base EXCEPT !.path = href.path, !.frag = href.frag]

\* utils.resolve_url for a non-empty href
ResolveUrl(base, href) == CanonicalizeUrl(SiteUrlJoin(base, href))

\* The link loop of _process_html: every anchor with an href is resolved against
\* final_url and kept if it is on the site of start_url; nothing is de-duplicated.
RECURSIVE ProcessLinks(_, _, _)
ProcessLinks(start_url, final_url, anchors) ==
    IF anchors = <<>> THEN <<>>
    ELSE IF Head(anchors) = HrefSiteEmpty
         THEN ProcessLinks(start_url, final_url, Tail(anchors))
         ELSE LET abs_url == ResolveUrl(SiteSplit(final_url), SiteSplit(Head(anchors)))
              IN (IF IsSameSite(SiteSplit(start_url), abs_url)
                  THEN <<SiteText(abs_url)>> ELSE <<>>)
                 \o ProcessLinks(start_url, final_url, Tail(anchors))

NoneUrl == "None"

Item(u, d) == [url |-> u, depth |-> d]

NoneItem == Item(NoneUrl, 0)

StatusCodes == {200, 304, 404}

ContentTypes == {"text/html", "application/pdf", "image/png"}

\* The content type of the error responses of the modelled site.
ErrorContentTypes == {"text/html"}

NoResp == [status |-> 0, ctype |-> ""]

\* A PageResult: the fields the crawl logic sets differently from case to case.
PageResult(u, st, ct, kind, lk, err) ==
    [url |-> u, status |-> st, content_type |-> ct, kind |-> kind, links |-> lk, error |-> err]

SiteIdle ==
    [concurrency |-> 0, max_pages |-> 0, max_depth_none |-> TRUE, max_depth |-> 0,
     respect_robots |-> TRUE, disallowed |-> {},
     pages |-> {}, statuses |-> {}, ctypes |-> {},
     seen |-> {}, queue |-> <<>>, unfinished |-> 0, finished |-> TRUE,
     results |-> <<>>, tasks_in_progress |-> 0, total_discovered |-> 0,
     pc |-> [w \in 1..Concurrency |-> "off"],
     item |-> [w \in 1..Concurrency |-> NoneItem],
     resp |-> [w \in 1..Concurrency |-> NoResp],
     main |-> "off", ahead |-> {},
     puts |-> [u \in SiteUrls |-> 0], over_budget_fetch |-> FALSE, lost |-> {},
     http_status |-> [u \in SiteUrls |-> 0], anchors |-> {}]

\* Queue.put on an unbounded asyncio.Queue: never suspends.
SitePut(s, it) ==
    [s EXCEPT !.queue = Append(@, it), !.unfinished = @ + 1, !.finished = FALSE,
              !.puts = [u \in SiteUrls |-> IF u = it.url THEN @[u] + 1 ELSE @[u]]]

SiteWorkers(s) == DOMAIN s.pc

\* Crawler.__init__ and the start of crawl(): seed into seen, then on the queue;
\* `concurrency` workers are created and crawl() waits in queue.join().  The fields
\* pages, statuses and ctypes are the site the crawl meets.
SiteConstructed(concurrency, mp, mdn, md, pages, statuses, ctypes) ==
    SitePut([SiteIdle EXCEPT !.concurrency = concurrency, !.max_pages = mp, !.max_depth_none = mdn, !.max_depth = md,
                             !.pages = pages, !.statuses = statuses, !.ctypes = ctypes,
                             !.seen = {SiteStart}, !.total_discovered = 1,
                             !.pc = [w \in 1..concurrency |-> "start"],
                             !.item = [w \in 1..concurrency |-> NoneItem],
                             !.resp = [w \in 1..concurrency |-> NoResp],
                             !.main = "joining"],
            Item(SiteStart, 0))

SiteInit ==
    /\ \E mp \in 0..MaxPagesBound, mdn \in BOOLEAN, md \in 0..MaxDepthBound :
          /\ (mdn => md = 0)
          /\ site = SiteConstructed(Concurrency, mp, mdn, md,
                                    SitePages, StatusCodes, ContentTypes)

\* One more worker, a site of HTML pages with four anchors, no depth limit.
SiteWideInit ==
    /\ \E mp \in 1..MaxPagesBound :
          site = SiteConstructed(Concurrency + 1, mp, TRUE, 0,
                                 SiteWidePages, {200}, {"text/html"})

\* A crawl without depth limit of a site with anchors in several spellings.
SiteLinksInit ==
    /\ \E mp \in 0..MaxPagesBound :
          site = SiteConstructed(Concurrency, mp, TRUE, 0,
                                 SiteAnchorPages, {200}, {"text/html"})

\* The default crawl (respect_robots=True) of a site whose robots.txt disallows some
\* of its pages for every user agent; field `disallowed` holds those pages.
SiteRobotsInit ==
    /\ \E mp \in 0..MaxPagesBound, d \in {{SiteB}, {SiteD, SitePdf}} :
          site = [SiteConstructed(Concurrency, mp, TRUE, 0,
                                  SitePages, {200}, {"text/html"})
                     EXCEPT !.disallowed = d]

\* A task_done() that never sets the event queue.join() waits on.
SiteTaskDoneNoWake(s, w) == [s EXCEPT !.unfinished = @ - 1]

\* Queue.task_done() when it does not raise: the last one sets the event queue.join()
\* waits on.  crawl() then runs after the tasks that were already ready to run, each of
\* which runs at most up to its next suspension point (field `ahead`).
SiteTaskDone(s, w) ==
    LET u == s.unfinished - 1
        wakes == u = 0 /\ s.main = "joining"
    IN [s EXCEPT !.unfinished = u,
                 !.finished = (@ \/ u = 0),
                 !.main = IF wakes THEN "woken" ELSE @,
                 !.ahead = IF wakes THEN SiteWorkers(s) \ {w} ELSE @]

\* Queue.task_done() raises ValueError("task_done() called too many times").
SiteTaskDoneRaises(s) == s.unfinished <= 0

SiteAppend(s, r) == [s EXCEPT !.results = Append(@, r)]

\* The finally block of _worker, up to `await asyncio.sleep`.
SiteFinally(s, w) ==
    IF SiteTaskDoneRaises(s)
    THEN [s EXCEPT !.pc[w] = "crashed"]
    ELSE LET t == SiteTaskDone(s, w)
         IN [t EXCEPT !.tasks_in_progress = @ - 1, !.pc[w] = "sleep"]

\* `except Exception as e`: an error record, then the finally block.
SiteExcept(s, w) ==
    SiteFinally(SiteAppend(s, PageResult(s.item[w].url, 0, "", "none", <<>>, "exception")), w)

\* `queue.task_done(); self.tasks_in_progress -= 1; continue` inside the try block:
\* the finally block runs as well.
SiteDoneAndContinue(s, w) ==
    IF SiteTaskDoneRaises(s)
    THEN SiteExcept(s, w)
    ELSE LET t == SiteTaskDone(s, w)
         IN SiteFinally([t EXCEPT !.tasks_in_progress = @ - 1], w)

\* `self.max_pages and len(self.results) >= self.max_pages`
SiteBudgetHit(s) == s.max_pages # 0 /\ Len(s.results) >= s.max_pages

\* From a successful queue.get() to the next suspension point.
SiteDequeue(s, w) ==
    LET it == Head(s.queue)
        s1 == [s EXCEPT !.queue = Tail(@)]
        s2 == [s1 EXCEPT !.tasks_in_progress = @ + 1, !.item[w] = it]
    IN IF it.url = NoneUrl
       THEN IF SiteTaskDoneRaises(s1)
            THEN [s1 EXCEPT !.pc[w] = "crashed"]
            ELSE [SiteTaskDone(s1, w) EXCEPT !.pc[w] = "returned"]
       ELSE IF SiteBudgetHit(s2)
            THEN SiteDoneAndContinue(s2, w)
            ELSE [s2 EXCEPT !.pc[w] = "fetch",
                            !.over_budget_fetch =
                                @ \/ (s2.max_pages # 0 /\ Len(s2.results) >= s2.max_pages)]

\* The head of the worker loop: `item = await queue.get()`.
SiteLoop(s, w) ==
    IF s.queue = <<>> THEN [s EXCEPT !.pc[w] = "get"] ELSE SiteDequeue(s, w)

\* `resp is None`: the request failed.
SiteRequestFailed(s, w) ==
    SiteDoneAndContinue(
        SiteAppend(s, PageResult(s.item[w].url, 0, "", "none", <<>>, "request_failed")), w)

\* `status >= 400`
SiteHttpError(s, w, st, ct) ==
    SiteFinally(SiteAppend(s, PageResult(s.item[w].url, st, ct, "none", <<>>, "http")), w)

\* A variant of the link test that puts the link on the queue without recording it
\* in `seen`.
SiteOfferLinkUnseen(s, link, nd) ==
    IF link \notin s.seen
    THEN SitePut([s EXCEPT !.total_discovered = @ + 1], Item(link, nd))
    ELSE s

\* The test of one discovered link and its enqueueing.
SiteOfferLink(s, link, nd) ==
    IF link \notin s.seen
    THEN SitePut([s EXCEPT !.seen = @ \cup {link}, !.total_discovered = @ + 1],
                 Item(link, nd))
    ELSE s

RECURSIVE SiteEnqueueLinks(_, _, _)
SiteEnqueueLinks(s, links, nd) ==
    IF links = <<>> THEN s
    ELSE SiteEnqueueLinks(SiteOfferLink(s, Head(links), nd), Tail(links), nd)

\* A variant of the depth test that lets links through one level deeper.
SiteDepthAllowsOneMore(s, nd) == s.max_depth_none \/ nd <= s.max_depth + 1

\* `self.max_depth is None or next_depth <= self.max_depth`
SiteDepthAllows(s, nd) == s.max_depth_none \/ nd <= s.max_depth

\* After `content = await resp.read()`: the three content branches.
SiteContent(s, w, st, ct, links) ==
    LET u == s.item[w].url
        nd == s.item[w].depth + 1
    IN IF ct = "application/pdf" \/ EndsWithPdf(u)
       THEN SiteFinally(SiteAppend(s, PageResult(u, 200, "application/pdf", "pdf", <<>>, "")), w)
       ELSE IF ct = "text/html"
            THEN LET s1 == SiteAppend(s, PageResult(u, 200, "text/html", "html", links, ""))
                 IN SiteFinally(IF SiteDepthAllows(s1, nd)
                                THEN SiteEnqueueLinks(s1, links, nd) ELSE s1, w)
            ELSE SiteFinally(SiteAppend(s, PageResult(u, st, ct, "none", <<>>, "")), w)

\* A task may run while crawl() waits in join(), or once before crawl() resumes.
SiteCanRun(w) ==
    \/ site.main = "joining"
    \/ site.main = "woken" /\ w \in site.ahead

SiteRan(s, w) == [s EXCEPT !.ahead = @ \ {w}]

SiteLoopHead(w) ==
    /\ site.pc[w] \in {"start", "sleep"}
    /\ SiteCanRun(w)
    /\ site' = SiteRan(SiteLoop(site, w), w)
    /\ UNCHANGED <<scr, rob, util, sto>>

SiteGetWake(w) ==
    /\ site.pc[w] = "get"
    /\ site.queue # <<>>
    /\ SiteCanRun(w)
    /\ site' = SiteRan(SiteDequeue(site, w), w)
    /\ UNCHANGED <<scr, rob, util, sto>>

\* _fetch returned None (any exception of the request).
SiteFetchFailed(w) ==
    /\ site.pc[w] = "fetch"
    /\ SiteCanRun(w)
    /\ site' = SiteRan(SiteRequestFailed(site, w), w)
    /\ UNCHANGED <<scr, rob, util, sto>>

\* _fetch returned a response; resp.read() suspends.
SiteFetchDone(w) ==
    /\ site.pc[w] = "fetch"
    /\ SiteCanRun(w)
    /\ \E st \in site.statuses, ct \in site.ctypes :
          /\ (st >= 400 => ct \in ErrorContentTypes)
          /\ LET s1 == [site EXCEPT !.http_status[site.item[w].url] = st]
             IN site' = SiteRan(IF st >= 400
                                THEN SiteHttpError(s1, w, st, ct)
                                ELSE [s1 EXCEPT !.pc[w] = "read",
                                                !.resp[w] = [status |-> st, ctype |-> ct]],
                                w)
    /\ UNCHANGED <<scr, rob, util, sto>>

\* resp.read() returned; _process_html / _process_pdf have no suspension point.
SiteReadDone(w) ==
    /\ site.pc[w] = "read"
    /\ SiteCanRun(w)
    /\ \E anchors \in site.pages :
          /\ (site.resp[w].ctype # "text/html" \/ EndsWithPdf(site.item[w].url)
                 => anchors = <<>>)
          /\ site' = SiteRan(SiteContent([site EXCEPT !.anchors = @ \cup Range(anchors)],
                                         w, site.resp[w].status, site.resp[w].ctype,
                                         ProcessLinks(SiteStart, site.item[w].url, anchors)),
                             w)
    /\ UNCHANGED <<scr, rob, util, sto>>

\* resp.read() or the processing of the content raised.
SiteReadRaised(w) ==
    /\ site.pc[w] = "read"
    /\ SiteCanRun(w)
    /\ site' = SiteRan(SiteExcept(site, w), w)
    /\ UNCHANGED <<scr, rob, util, sto>>

\* What w.cancel() does to a worker at its suspension point.
SiteCancelOne(s, w) ==
    CASE s.pc[w] \in {"get", "start"} -> [s EXCEPT !.pc[w] = "returned"]
      [] s.pc[w] = "sleep" -> [s EXCEPT !.pc[w] = "cancelled"]
      [] s.pc[w] \in {"fetch", "read"} ->
            LET s1 == [s EXCEPT !.lost = @ \cup {s.item[w].url}]
            IN IF SiteTaskDoneRaises(s1)
               THEN [s1 EXCEPT !.pc[w] = "crashed"]
               ELSE [SiteTaskDone(s1, w) EXCEPT !.tasks_in_progress = @ - 1,
                                                !.pc[w] = "cancel_sleep"]
      [] OTHER -> s

RECURSIVE SiteCancelAll(_, _)
SiteCancelAll(s, ws) ==
    IF ws = {} THEN s
    ELSE LET w == CHOOSE x \in ws : \A y \in ws : x <= y
         IN SiteCancelAll(SiteCancelOne(s, w), ws \ {w})

RECURSIVE SitePutNones(_, _)
SitePutNones(s, n) ==
    IF n = 0 THEN s
    ELSE SitePutNones([s EXCEPT !.queue = Append(@, NoneItem), !.unfinished = @ + 1,
                                !.finished = FALSE], n - 1)

\* crawl() after queue.join(): one None per worker, then every worker is cancelled.
\* A worker that had already died of ValueError makes gather() raise.
SiteJoinReturns ==
    /\ site.main = "woken"
    /\ site' = [SiteCancelAll(SitePutNones(site, Cardinality(SiteWorkers(site))),
                              SiteWorkers(site))
                   EXCEPT !.main = "gathering", !.ahead = {}]
    /\ UNCHANGED <<scr, rob, util, sto>>

\* A worker cancelled in flight finishes the sleep of its finally block.
SiteCancelSleepDone(w) ==
    /\ site.pc[w] = "cancel_sleep"
    /\ site' = [site EXCEPT !.pc[w] = "cancelled"]
    /\ UNCHANGED <<scr, rob, util, sto>>

SiteGather ==
    /\ site.main = "gathering"
    /\ \A w \in SiteWorkers(site) : site.pc[w] \in {"returned", "cancelled", "crashed"}
    /\ site' = [site EXCEPT !.main = IF \E w \in SiteWorkers(site) : site.pc[w] = "crashed"
                                     THEN "raised" ELSE "returned"]
    /\ UNCHANGED <<scr, rob, util, sto>>

SiteNext ==
    \/ \E w \in SiteWorkers(site) : SiteLoopHead(w)
    \/ \E w \in SiteWorkers(site) : SiteGetWake(w)
    \/ \E w \in SiteWorkers(site) : SiteFetchFailed(w)
    \/ \E w \in SiteWorkers(site) : SiteFetchDone(w)
    \/ \E w \in SiteWorkers(site) : SiteReadDone(w)
    \/ \E w \in SiteWorkers(site) : SiteReadRaised(w)
    \/ SiteJoinReturns
    \/ \E w \in SiteWorkers(site) : SiteCancelSleepDone(w)
    \/ SiteGather

(***************************************************************************)
(*                       scraper.crawler.Crawler                           *)
(* A URL is the sequence of its lexical tokens: scheme, host, then "/",    *)
(* path segments, "#" and a fragment, e.g. <<"http://", "ex.com", "/",     *)
(* "a", "/">> for http://ex.com/a/.  The code under study inspects a URL   *)
(* only at these token boundaries.                                         *)
(***************************************************************************)
ScrWorkers == 1..Concurrency

None == <<>>

HttpSchemes == {"http://", "https://"}

Schemes == HttpSchemes \cup {"mailto:"}

ScrRoot == <<"http://", "ex.com", "/">>

ScrA == <<"http://", "ex.com", "/", "a">>

\* The anchors (href attributes) the modelled pages are made of.
HrefUpperSlash == <<"http://", "EX.com", "/", "a", "/">>

HrefA == <<"http://", "ex.com", "/", "a">>

HrefB == <<"/", "b">>

HrefExternal == <<"http://", "other.com", "/", "x">>

HrefRootFrag == <<"http://", "ex.com", "/", "#", "top">>

HrefMail == <<"mailto:", "me">>

HrefLocal == <<"http://", "localhost", "/", "x">>

\* urlparse(url).netloc of the modelled URLs, in the letter case of the URL.
ScrHosts == {"ex.com", "EX.com", "other.com", "localhost", "a.test", "external.test"}

\* A seed and an anchor on hosts under .test, which is no public suffix.
ScrTestRoot == <<"http://", "a.test", "/">>

ScrTestB == <<"http://", "a.test", "/", "b">>

HrefExternalTest == <<"https://", "external.test", "/">>

\* The anchors of a page, in document order.
ScrPages == {<<>>, <<HrefUpperSlash, HrefA>>, <<HrefA, HrefB>>, <<HrefB, HrefExternal>>,
             <<HrefRootFrag, HrefB, HrefB>>, <<HrefMail, HrefB>>, <<HrefLocal>>}

\* The status codes the modelled servers answer with.
ScrStatusCodes == {200, 404}

ScrSeedLists == {<<ScrRoot>>, <<ScrRoot, ScrA>>}

Last(q) == q[Len(q)]

\* urllib.parse.urljoin on the modelled anchors: an anchor with a scheme is returned as
\* it is, an absolute path replaces the path of the base.
UrlJoin(base, href) ==
    IF href[1] \in Schemes THEN href
    ELSE SubSeq(base, 1, 2) \o href

\* urllib.parse.urldefrag: the URL up to its first "#".
RECURSIVE UrlDefrag(_)
UrlDefrag(u) ==
    IF u = <<>> \/ Head(u) = "#" THEN <<>>
    ELSE <<Head(u)>> \o UrlDefrag(Tail(u))

\* Crawler._normalize_url
NormalizeUrl(base, href) ==
    IF href = <<>> THEN None
    ELSE LET absolute == UrlJoin(base, href)
         IN IF absolute[1] \notin HttpSchemes THEN None
            ELSE LET d == UrlDefrag(absolute)
                 IN IF Last(d) = "/" THEN SubSeq(d, 1, Len(d) - 1) ELSE d

RECURSIVE ScrNormalizeAll(_, _)
ScrNormalizeAll(base, hrefs) ==
    IF hrefs = <<>> THEN <<>>
    ELSE LET n == NormalizeUrl(base, Head(hrefs))
         IN (IF n # None THEN <<n>> ELSE <<>>) \o ScrNormalizeAll(base, Tail(hrefs))

\* The order-preserving de-duplication of _extract_links.
RECURSIVE ScrDedup(_, _)
ScrDedup(links, seen_local) ==
    IF links = <<>> THEN <<>>
    ELSE IF Head(links) \in seen_local THEN ScrDedup(Tail(links), seen_local)
         ELSE <<Head(links)>> \o ScrDedup(Tail(links), seen_local \cup {Head(links)})

\* Crawler._extract_links
ExtractLinks(hrefs, base) == ScrDedup(ScrNormalizeAll(base, hrefs), {})

HostLower(h) == IF h = "EX.com" THEN "ex.com" ELSE h

\* tldextract.extract(url).registered_domain for the modelled hosts; it is empty for
\* a host that ends in no public suffix.  Releases of
\* tldextract differ in whether the result keeps the letter case of the input.
RegisteredDomain(url, lowercases) ==
    LET h == IF lowercases THEN HostLower(url[2]) ELSE url[2]
    IN IF h = "sub.ex.com" THEN "ex.com"
       ELSE IF h \in {"localhost", "a.test", "external.test"} THEN ""
            ELSE h

\* Crawler._compute_domain_whitelist
ComputeDomainWhitelist(include_domains, start_urls, lowercases) ==
    IF include_domains # {} THEN include_domains
    ELSE {RegisteredDomain(start_urls[i], lowercases) : i \in DOMAIN start_urls} \ {""}

\* self.exclude_pattern.search(url), for an exclude_regex that is one literal word.
ExcludeMatches(s, url) == s.exclude_regex # "" /\ \E i \in DOMAIN url : url[i] = s.exclude_regex

\* Crawler._should_enqueue
ShouldEnqueue(s, url) ==
    /\ url \notin s.seen
    /\ ~ExcludeMatches(s, url)
    /\ (s.domain_whitelist # {}
           => LET domain == RegisteredDomain(url, s.tld_lowercases)
              IN ~(domain # "" /\ domain \notin s.domain_whitelist))

ScrItem(u, d) == [url |-> u, depth |-> d]

NoRecord == [url |-> None, status |-> 0, links |-> <<>>]

ScrIdle ==
    [start_urls |-> <<>>, max_pages |-> 0, max_depth |-> 0, include_domains |-> {},
     exclude_regex |-> "", resume |-> FALSE, respect_robots |-> FALSE,
     tld_lowercases |-> FALSE, domain_whitelist |-> {},
     queue |-> <<>>, seen |-> {}, stored |-> 0, db |-> {}, sem |-> 0,
     pc |-> [w \in ScrWorkers |-> "off"],
     cur |-> [w \in ScrWorkers |-> ScrItem(None, 0)],
     result |-> [w \in ScrWorkers |-> NoRecord],
     per_host_limiter |-> [h \in ScrHosts |-> 0], limiters_made |-> [h \in ScrHosts |-> 0],
     limiter |-> [w \in ScrWorkers |-> 0],
     attempt |-> [w \in ScrWorkers |-> 0], last_error |-> [w \in ScrWorkers |-> ""],
     main |-> "off",
     appended |-> {}, twice |-> {}, fetches |-> 0, fetched |-> {},
     existing |-> {}, upserted |-> {}, pages |-> ScrPages, statuses |-> ScrStatusCodes]

\* deque.append, and the record of what was ever appended.
ScrAppend(s, it) ==
    [s EXCEPT !.queue = Append(@, it),
              !.appended = @ \cup {it.url},
              !.twice = IF it.url \in s.appended THEN @ \cup {it.url} ELSE @]

RECURSIVE ScrAppendAll(_, _, _)
ScrAppendAll(s, urls, d) ==
    IF urls = <<>> THEN s
    ELSE ScrAppendAll(ScrAppend(s, ScrItem(Head(urls), d)), Tail(urls), d)

\* Crawler._get_host
GetHost(url) == url[2]

\* A variant of the registry test that never finds a limiter.
ScrHasLimiterNever(s, host) == FALSE

\* `limiter = self.per_host_limiter.get(host)` is found (an AsyncLimiter is truthy).
\* A limiter is named by its number in the order of creation, 0 is None.
ScrHasLimiter(s, host) == s.per_host_limiter[host] # 0

ScrLimitersMade(s) ==
    LET RECURSIVE Sum(_)
        Sum(hs) == IF hs = {} THEN 0
                   ELSE LET h == CHOOSE x \in hs : TRUE
                        IN s.limiters_made[h] + Sum(hs \ {h})
    IN Sum(ScrHosts)

\* Crawler._get_limiter for the URL of worker w: no suspension point.
ScrGetLimiter(s, w) ==
    LET host == GetHost(s.cur[w].url)
    IN IF ScrHasLimiter(s, host)
       THEN [s EXCEPT !.limiter[w] = s.per_host_limiter[host]]
       ELSE LET id == ScrLimitersMade(s) + 1
            IN [s EXCEPT !.per_host_limiter[host] = id,
                         !.limiters_made[host] = @ + 1,
                         !.limiter[w] = id]

\* A variant of the semaphore in which a fetch takes no slot.
ScrSemAcquireFree(s) == s

\* `async with self.concurrency_semaphore`: entering and leaving.
ScrSemAcquire(s) == [s EXCEPT !.sem = @ - 1]

ScrSemRelease(s) == [s EXCEPT !.sem = @ + 1]

\* A variant of the budget test that still passes when the budget is used up.
ScrBudgetLeftInclusive(s) == Cardinality(s.seen) <= s.max_pages

\* `len(self.seen) < self.config.max_pages`
ScrBudgetLeft(s) == Cardinality(s.seen) < s.max_pages

\* The worker loop from its head to the next suspension point, the request; when the
\* loop ends the worker returns and its local variables are gone.
\* A variant of the test that takes every dequeued URL for new.
ScrSeenNever(s, url) == FALSE

\* `if url in self.seen: continue`
ScrSeen(s, url) == url \in s.seen

RECURSIVE ScrLoop(_, _)
ScrLoop(s, w) ==
    IF s.queue # <<>> /\ ScrBudgetLeft(s)
    THEN LET it == Head(s.queue)
             s1 == [s EXCEPT !.queue = Tail(@)]
         IN IF ScrSeen(s1, it.url)
            THEN ScrLoop(s1, w)
            ELSE ScrGetLimiter(
                     ScrSemAcquire([s1 EXCEPT !.seen = @ \cup {it.url}, !.cur[w] = it,
                                              !.pc[w] = "fetch", !.attempt[w] = 1,
                                              !.last_error[w] = "",
                                              !.fetches = @ + 1,
                                              !.fetched = @ \cup {it.url}]), w)
    ELSE [s EXCEPT !.pc[w] = "done", !.result[w] = NoRecord, !.limiter[w] = 0,
                   !.attempt[w] = 0, !.last_error[w] = ""]

RECURSIVE ScrStartWorkers(_, _)
ScrStartWorkers(s, w) ==
    IF w > Concurrency THEN s ELSE ScrStartWorkers(ScrLoop(s, w), w + 1)

\* A resume step that marks nothing seen.
ScrMarkSeenNone(resume, existing) == {}

\* `if self.storage and self.config.resume: self.seen.update(existing)`, where
\* existing is what get_all_urls returned.
ScrMarkSeen(resume, existing) == IF resume THEN existing ELSE {}

\* Crawler.__init__: with respect_robots it calls RobotsCache(user_agent=...) without
\* the required timeout_seconds and raises TypeError.  Otherwise crawl() marks the
\* stored URLs seen (resume), creates the workers and waits in gather(); every worker
\* runs to its first suspension point before any request completes.
ScrConstructed(seeds, mp, md, inc, exc, resume, db0, robots, lowercases) ==
    LET c == [ScrIdle EXCEPT !.start_urls = seeds, !.max_pages = mp, !.max_depth = md,
                             !.include_domains = inc, !.exclude_regex = exc,
                             !.resume = resume, !.respect_robots = robots,
                             !.tld_lowercases = lowercases, !.db = db0,
                             !.existing = db0,
                             !.sem = Concurrency]
    IN IF robots THEN [c EXCEPT !.main = "type_error"]
       ELSE LET q == ScrAppendAll(
                        [c EXCEPT !.domain_whitelist =
                                      ComputeDomainWhitelist(inc, seeds, lowercases),
                                  !.seen = ScrMarkSeen(resume, db0),
                                  !.main = "gather"], seeds, 0)
            IN ScrStartWorkers(q, 1)

ScrInit ==
    \E seeds \in ScrSeedLists, mp \in 0..MaxPagesBound, md \in 0..MaxDepthBound,
       inc \in {{}, {"ex.com"}}, exc \in {"", "a", "b"}, resume \in BOOLEAN,
       db0 \in {{}, {ScrRoot}}, robots \in BOOLEAN, lowercases \in BOOLEAN :
          /\ (db0 # {} => resume)
          /\ scr = ScrConstructed(seeds, mp, md, inc, exc, resume, db0, robots, lowercases)

\* A crawl of two seeds, or of one seed given twice, whose page budget exceeds the
\* number of workers, started afresh or resumed over a store that holds one of the seeds.
ScrBusyInit ==
    \E seeds \in {<<ScrRoot, ScrA>>, <<ScrA, ScrA>>}, md \in 0..MaxDepthBound,
       lowercases \in BOOLEAN, db0 \in {{}, {ScrRoot}, {ScrA}} :
        scr = ScrConstructed(seeds, MaxPagesBound + 1, md, {}, "", db0 # {},
                             db0, FALSE, lowercases)

\* The crawl of seed http://a.test/ with max_depth 1, no include_domains and an empty
\* store, over pages that answer 200 and link to /b and to https://external.test/.
ScrScenarioInit ==
    \E mp \in {MaxPagesBound + 1, MaxPagesBound + 2}, robots \in BOOLEAN, lowercases \in BOOLEAN :
        scr = [ScrConstructed(<<ScrTestRoot>>, mp, 1, {}, "", FALSE, {}, robots, lowercases)
                  EXCEPT !.pages = {<<HrefB, HrefExternalTest>>}, !.statuses = {200}]

\* fetch_and_extract returned a record: status, and the links of the page.
ScrRecord(s, w, st, hrefs) ==
    [url |-> s.cur[w].url, status |-> st,
     links |-> IF st >= 400 THEN <<>> ELSE ExtractLinks(hrefs, s.cur[w].url)]

ScrFetchDone(w) ==
    /\ scr.pc[w] = "fetch"
    /\ \E st \in scr.statuses, hrefs \in scr.pages :
          /\ (st >= 400 => hrefs = <<>>)
          /\ scr' = [ScrSemRelease(scr) EXCEPT !.result[w] = ScrRecord(scr, w, st, hrefs),
                                               !.pc[w] = "upsert"]
    /\ UNCHANGED <<site, rob, util, sto>>

\* stop_after_attempt(3)
StopAfterAttempt == 3

\* What session.get may raise: httpx.HTTPError (timeouts of httpx included),
\* asyncio.TimeoutError, or an exception outside the retried types.
ScrExceptionKinds == {"HTTPError", "TimeoutError", "OtherError"}

\* retry_if_exception_type((httpx.HTTPError, asyncio.TimeoutError))
ScrRetries(e) == e \in {"HTTPError", "TimeoutError"}

\* A variant of the stop condition that never stops.
ScrStopNever(s, w) == FALSE

\* stop_after_attempt: the attempt that just failed was the last one.
ScrStop(s, w) == s.attempt[w] >= StopAfterAttempt

\* A retried exception before the last attempt: back-off sleep, then the next request.
ScrAttemptFailed(w) ==
    /\ scr.pc[w] = "fetch"
    /\ ~ScrStop(scr, w)
    /\ \E e \in ScrExceptionKinds :
          /\ ScrRetries(e)
          /\ scr' = [scr EXCEPT !.attempt[w] = @ + 1, !.last_error[w] = e]
    /\ UNCHANGED <<site, rob, util, sto>>

\* The last attempt failed (tenacity raises RetryError) or the exception is not of a
\* retried type: it leaves the worker, and gather() passes the first exception on to
\* crawl().
ScrFetchRaised(w) ==
    /\ scr.pc[w] = "fetch"
    /\ \E e \in ScrExceptionKinds :
          /\ (ScrRetries(e) => ScrStop(scr, w))
          /\ scr' = [ScrSemRelease(scr) EXCEPT !.pc[w] = "crashed", !.last_error[w] = e,
                                               !.main = IF @ = "gather" THEN "raised" ELSE @]
    /\ UNCHANGED <<site, rob, util, sto>>

\* The test of one link of the page and its enqueueing.
ScrOfferLink(s, link, d) ==
    IF ShouldEnqueue(s, link) THEN ScrAppend(s, ScrItem(link, d)) ELSE s

RECURSIVE ScrEnqueueLinks(_, _, _)
ScrEnqueueLinks(s, links, d) ==
    IF links = <<>> THEN s
    ELSE ScrEnqueueLinks(ScrOfferLink(s, Head(links), d), Tail(links), d)

\* `depth < self.config.max_depth`
ScrDepthAllows(s, depth) == depth < s.max_depth

\* A variant in which the worker returns after its first page.
ScrAfterUpsertReturn(s, w) ==
    [s EXCEPT !.db = @ \cup {s.cur[w].url}, !.stored = @ + 1,
              !.upserted = @ \cup {s.result[w].url},
              !.queue = @ \o [i \in DOMAIN s.result[w].links |->
                                 ScrItem(s.result[w].links[i], s.cur[w].depth + 1)],
              !.pc[w] = "done"]

\* storage.upsert_page returned: count, enqueue the links, next loop iteration.
ScrAfterUpsert(s, w) ==
    LET s1 == [s EXCEPT !.db = @ \cup {s.cur[w].url}, !.stored = @ + 1,
                        !.upserted = @ \cup {s.result[w].url}]
        s2 == IF ScrDepthAllows(s1, s1.cur[w].depth)
              THEN ScrEnqueueLinks(s1, s1.result[w].links, s1.cur[w].depth + 1)
              ELSE s1
    IN ScrLoop(s2, w)

ScrUpsertDone(w) ==
    /\ scr.pc[w] = "upsert"
    /\ scr' = ScrAfterUpsert(scr, w)
    /\ UNCHANGED <<site, rob, util, sto>>

\* gather() returns when every worker has returned; crawl() returns `stored`.
ScrGather ==
    /\ scr.main = "gather"
    /\ \A w \in ScrWorkers : scr.pc[w] = "done"
    /\ scr' = [scr EXCEPT !.main = "returned"]
    /\ UNCHANGED <<site, rob, util, sto>>

\* After crawl() has raised, the event loop is shut down and the workers that are
\* still suspended are cancelled.
ScrCancelled(w) ==
    /\ scr.main = "raised"
    /\ scr.pc[w] \in {"fetch", "upsert"}
    /\ scr' = [(IF scr.pc[w] = "fetch" THEN ScrSemRelease(scr) ELSE scr)
                   EXCEPT !.pc[w] = "cancelled"]
    /\ UNCHANGED <<site, rob, util, sto>>

ScrNext ==
    \/ \E w \in ScrWorkers : ScrFetchDone(w)
    \/ \E w \in ScrWorkers : ScrAttemptFailed(w)
    \/ \E w \in ScrWorkers : ScrFetchRaised(w)
    \/ \E w \in ScrWorkers : ScrUpsertDone(w)
    \/ ScrGather
    \/ \E w \in ScrWorkers : ScrCancelled(w)

\* The steps of a crawl of one seed: the workers that found the queue empty at the
\* start have returned, so no worker is suspended when another one raises.
ScrSoloNext ==
    \/ \E w \in ScrWorkers : ScrFetchDone(w)
    \/ \E w \in ScrWorkers : ScrAttemptFailed(w)
    \/ \E w \in ScrWorkers : ScrFetchRaised(w)
    \/ \E w \in ScrWorkers : ScrUpsertDone(w)
    \/ ScrGather

(***************************************************************************)
(*                       scraper.robots.RobotsCache                        *)
(* A robots.txt body is the sequence of its lines (text.splitlines()); a   *)
(* line is its field name (lower case, "" for a blank line) and its value. *)
(* A URL path is the sequence of its tokens, e.g. <<"/", "private", "/",   *)
(* "x">>, and a rule path applies to a URL path that it is a prefix of.    *)
(***************************************************************************)
RobCallers == 3         \* concurrent callers of allowed() / get_sitemaps()

RobCallerIds == 1..RobCallers

Origins == {"http://a.test", "http://b.test"}

PathPrivate == <<"/", "private", "/", "x">>

PathPublic == <<"/", "public">>

RobPaths == {PathPrivate, PathPublic}

\* self.user_agent.split("/")[0].lower(), as can_fetch compares it.
UserAgent == "fullscraper"

RobLine(f, a, pth, u) == [field |-> f, agent |-> a, path |-> pth, url |-> u]

BlankLine == RobLine("", "", <<>>, "")

UaLine(a) == RobLine("user-agent", a, <<>>, "")

DisallowLine(pth) == RobLine("disallow", "", pth, "")

AllowLine(pth) == RobLine("allow", "", pth, "")

SitemapLine(u) == RobLine("sitemap", "", <<>>, u)

BodyEmpty == <<>>

BodyDisallowAll == <<UaLine("*"), DisallowLine(<<"/">>)>>

BodyPrivate ==
    <<UaLine("*"), DisallowLine(<<"/", "private">>), SitemapLine("http://a.test/sitemap.xml")>>

BodyOtherBot ==
    <<UaLine("otherbot"), DisallowLine(<<"/">>), BlankLine, SitemapLine(""),
      UaLine("fullscraper"), AllowLine(<<"/", "private", "/", "x">>),
      DisallowLine(<<"/", "private">>)>>

BodyNoAgent == <<DisallowLine(<<"/">>), UaLine("*"), DisallowLine(<<>>)>>

RobBodies == {BodyEmpty, BodyDisallowAll, BodyPrivate, BodyOtherBot, BodyNoAgent}

RobResponse(st, b) == [exc |-> "", status |-> st, body |-> b]

RobRaised(e) == [exc |-> e, status |-> 0, body |-> <<>>]

\* Exceptions of client.get: all of them are subclasses of Exception.
RobExceptions == {"ConnectError", "ReadTimeout"}

\* What the request for robots.txt may come back with.
RobResponses ==
    {RobRaised(e) : e \in RobExceptions}
        \cup {RobResponse(200, b) : b \in RobBodies}
        \cup {RobResponse(301, b) : b \in {BodyEmpty, BodyDisallowAll, BodyPrivate}}
        \cup {RobResponse(404, BodyDisallowAll), RobResponse(503, BodyEmpty)}

NewEntry == [useragents |-> <<>>, rulelines |-> <<>>]

NewParser == [entries |-> <<>>, default_entry |-> <<>>, last_checked |-> FALSE]

\* robotparser.RuleLine: an empty Disallow allows everything.
RuleLine(pth, allowance) == [path |-> pth, allowance |-> (allowance \/ pth = <<>>)]

\* RobotFileParser._add_entry
RobotParserAddEntry(p, entry) ==
    IF \E i \in DOMAIN entry.useragents : entry.useragents[i] = "*"
    THEN IF p.default_entry = <<>> THEN [p EXCEPT !.default_entry = <<entry>>] ELSE p
    ELSE [p EXCEPT !.entries = Append(@, entry)]

\* The loop of RobotFileParser.parse over the lines.
RECURSIVE RobotParserLines(_, _, _, _)
RobotParserLines(p, lines, state, entry) ==
    IF lines = <<>>
    THEN IF state = 2 THEN RobotParserAddEntry(p, entry) ELSE p
    ELSE LET l == Head(lines)
             rest == Tail(lines)
         IN CASE l.field = "" ->
                   IF state = 1 THEN RobotParserLines(p, rest, 0, NewEntry)
                   ELSE IF state = 2
                        THEN RobotParserLines(RobotParserAddEntry(p, entry), rest, 0, NewEntry)
                        ELSE RobotParserLines(p, rest, state, entry)
              [] l.field = "user-agent" ->
                   LET p1 == IF state = 2 THEN RobotParserAddEntry(p, entry) ELSE p
                       e1 == IF state = 2 THEN NewEntry ELSE entry
                   IN RobotParserLines(p1, rest, 1,
                                       [e1 EXCEPT !.useragents = Append(@, l.agent)])
              [] l.field \in {"disallow", "allow"} ->
                   IF state # 0
                   THEN RobotParserLines(p, rest, 2,
                            [entry EXCEPT !.rulelines =
                                              Append(@, RuleLine(l.path, l.field = "allow"))])
                   ELSE RobotParserLines(p, rest, state, entry)
              [] OTHER -> RobotParserLines(p, rest, state, entry)

\* A variant of modified() that does not record that robots.txt was read.
RobotParserUnmodified(p) == p

\* RobotFileParser.modified
RobotParserModified(p) == [p EXCEPT !.last_checked = TRUE]

\* parser = RobotFileParser(); parser.parse(lines)
RobotParserParse(lines) == RobotParserLines(RobotParserModified(NewParser), lines, 0, NewEntry)

IsPrefix(a, b) == Len(a) <= Len(b) /\ SubSeq(b, 1, Len(a)) = a

\* Entry.allowance: the first rule line that applies decides.
RECURSIVE EntryAllowance(_, _)
EntryAllowance(rulelines, pth) ==
    IF rulelines = <<>> THEN TRUE
    ELSE IF IsPrefix(Head(rulelines).path, pth) THEN Head(rulelines).allowance
         ELSE EntryAllowance(Tail(rulelines), pth)

\* Entry.applies_to
EntryAppliesTo(entry, useragent) ==
    \E i \in DOMAIN entry.useragents :
        entry.useragents[i] = "*" \/ entry.useragents[i] = useragent

RECURSIVE EntriesCanFetch(_, _, _, _)
EntriesCanFetch(entries, default_entry, useragent, pth) ==
    IF entries = <<>>
    THEN IF default_entry # <<>> THEN EntryAllowance(default_entry[1].rulelines, pth) ELSE TRUE
    ELSE IF EntryAppliesTo(Head(entries), useragent)
         THEN EntryAllowance(Head(entries).rulelines, pth)
         ELSE EntriesCanFetch(Tail(entries), default_entry, useragent, pth)

\* RobotFileParser.can_fetch: nothing may be fetched before robots.txt was read.
CanFetch(p, useragent, pth) ==
    IF ~p.last_checked THEN FALSE
    ELSE EntriesCanFetch(p.entries, p.default_entry, useragent, pth)

\* The text handed to the parser: the body of a response below 400, else "".
RobText(resp) ==
    IF resp.exc # "" THEN <<>>
    ELSE IF resp.status < 400 THEN resp.body ELSE <<>>

\* The `Sitemap:` lines of the text with a non-empty URL.
RECURSIVE RobSitemaps(_)
RobSitemaps(text) ==
    IF text = <<>> THEN <<>>
    ELSE (IF Head(text).field = "sitemap" /\ Head(text).url # ""
          THEN <<Head(text).url>> ELSE <<>>) \o RobSitemaps(Tail(text))

NoLock == [created |-> FALSE, locked |-> FALSE, waiters |-> <<>>]

NoCall ==
    [op |-> "", origin |-> "", path |-> <<>>, pc |-> "idle",
     ret_allowed |-> TRUE, ret_sitemaps |-> <<>>]

\* RobotsCache.__init__: empty _parsers, _sitemaps and _locks (a missing key is <<>>).
RobConstructed ==
    [parsers |-> [o \in Origins |-> <<>>],
     sitemaps |-> [o \in Origins |-> <<>>],
     locks |-> [o \in Origins |-> NoLock],
     call |-> [c \in RobCallerIds |-> NoCall],
     requests |-> [o \in Origins |-> 0],
     outcome |-> [o \in Origins |-> <<>>]]

RobIdle == [RobConstructed EXCEPT !.call = [c \in RobCallerIds |-> [NoCall EXCEPT !.pc = "off"]]]

RobInit == rob = RobConstructed

\* asyncio.Lock.release: the first waiter whose future is still pending is woken.
RobRelease(r, o) ==
    LET ws == r.locks[o].waiters
        r1 == [r EXCEPT !.locks[o].locked = FALSE]
    IN IF ws # <<>> /\ r.call[Head(ws)].pc = "wait_lock"
       THEN [r1 EXCEPT !.call[Head(ws)].pc = "woken"]
       ELSE r1

\* A variant of the cache test that never finds the origin.
RobCachedNever(r, o) == FALSE

\* `origin in self._parsers`
RobCached(r, o) == r.parsers[o] # <<>>

\* allowed() / get_sitemaps() after _fetch_and_parse has returned.
RobReturn(r, c) ==
    LET o == r.call[c].origin
    IN IF r.call[c].op = "allowed"
       THEN [r EXCEPT !.call[c].pc = "done",
                      !.call[c].ret_allowed =
                          IF r.parsers[o] = <<>> THEN TRUE
                          ELSE CanFetch(r.parsers[o][1], UserAgent, r.call[c].path)]
       ELSE [r EXCEPT !.call[c].pc = "done",
                      !.call[c].ret_sitemaps =
                          IF r.sitemaps[o] = <<>> THEN <<>> ELSE r.sitemaps[o][1]]

\* Inside `async with self._locks[origin]`, up to the request.
RobCritical(r, c) ==
    LET o == r.call[c].origin
    IN IF RobCached(r, o)
       THEN RobReturn(RobRelease(r, o), c)
       ELSE [r EXCEPT !.call[c].pc = "get", !.requests[o] = @ + 1]

\* _fetch_and_parse from its start: the lock is created if missing, then acquired
\* (asyncio.Lock.acquire suspends when the lock is held or has waiters).
RobAcquire(r, c) ==
    LET o == r.call[c].origin
        r1 == [r EXCEPT !.locks[o].created = TRUE]
    IN IF ~r1.locks[o].locked /\ r1.locks[o].waiters = <<>>
       THEN RobCritical([r1 EXCEPT !.locks[o].locked = TRUE], c)
       ELSE [r1 EXCEPT !.locks[o].waiters = Append(@, c), !.call[c].pc = "wait_lock"]

\* From the answer of client.get to the return of allowed() / get_sitemaps().
RobStore(r, c, resp) ==
    LET o == r.call[c].origin
        text == RobText(resp)
        r1 == [r EXCEPT !.parsers[o] = <<RobotParserParse(text)>>,
                        !.sitemaps[o] = <<RobSitemaps(text)>>,
                        !.outcome[o] = <<resp>>]
    IN RobReturn(RobRelease(r1, o), c)

\* `except Exception`
RobCaught(resp) == resp.exc \in RobExceptions

\* A caller starts allowed(client, origin, url) or get_sitemaps(client, origin).
RobCall(c) ==
    /\ rob.call[c].pc = "idle"
    /\ \E op \in {"allowed", "get_sitemaps"}, o \in Origins, pth \in RobPaths :
          /\ (op = "get_sitemaps" => pth = PathPublic)
          /\ rob' = RobAcquire([rob EXCEPT !.call[c].op = op, !.call[c].origin = o,
                                           !.call[c].path = pth], c)
    /\ UNCHANGED <<site, scr, util, sto>>

\* A woken waiter takes the lock.
RobLockWoken(c) ==
    /\ rob.call[c].pc = "woken"
    /\ LET o == rob.call[c].origin
       IN rob' = RobCritical([rob EXCEPT !.locks[o].waiters = Tail(@),
                                         !.locks[o].locked = TRUE], c)
    /\ UNCHANGED <<site, scr, util, sto>>

\* client.get returned or raised.
RobGetDone(c) ==
    /\ rob.call[c].pc = "get"
    /\ \E resp \in RobResponses :
          rob' = IF resp.exc # "" /\ ~RobCaught(resp)
                 THEN [RobRelease(rob, rob.call[c].origin) EXCEPT !.call[c].pc = "raised"]
                 ELSE RobStore(rob, c, resp)
    /\ UNCHANGED <<site, scr, util, sto>>

RobNext ==
    \/ \E c \in RobCallerIds : RobCall(c)
    \/ \E c \in RobCallerIds : RobLockWoken(c)
    \/ \E c \in RobCallerIds : RobGetDone(c)

(***************************************************************************)
(*        The URL and table functions, applied to drawn inputs             *)
(***************************************************************************)
\* No function under study has been applied, no store is open.
UtilIdle == [fn |-> "off"]

\* Anchors with repeated trailing slashes and with a query.
HrefSlashes == <<"/", "a", "/", "/">>

HrefQuerySlash == <<"/", "a", "?", "x=", "/">>

HrefQueryFrag == <<"/", "a", "/", "?", "q=1", "#", "top">>

HrefEmpty == <<>>

NormHrefs ==
    {HrefUpperSlash, HrefA, HrefB, HrefExternal, HrefRootFrag, HrefMail, HrefLocal,
     HrefSlashes, HrefQuerySlash, HrefQueryFrag, HrefEmpty}

NormBases == {ScrRoot, <<"http://", "other.com", "/", "z">>, <<"https://", "ex.com", "/", "dir", "/">>}

\* The query string of a URL without fragment: what follows its first "?".
RECURSIVE QueryOf(_)
QueryOf(u) ==
    IF u = <<>> THEN <<>>
    ELSE IF Head(u) = "?" THEN Tail(u) ELSE QueryOf(Tail(u))

\* _normalize_url is called on an anchor of a page, and again on its own result.
UtilNormalizeInit ==
    \E base \in NormBases, href \in NormHrefs :
        util = [fn |-> "normalize", step |-> "input", base_url |-> base, href |-> href,
                n |-> None, base2 |-> None, again |-> None]

UtilNormalizeApply ==
    /\ util.fn = "normalize"
    /\ util.step = "input"
    /\ util' = [util EXCEPT !.step = "once", !.n = NormalizeUrl(util.base_url, util.href)]
    /\ UNCHANGED <<site, scr, rob, sto>>

UtilNormalizeAgain ==
    /\ util.fn = "normalize"
    /\ util.step = "once"
    /\ util.n # None
    /\ \E base2 \in NormBases :
          util' = [util EXCEPT !.step = "twice", !.base2 = base2,
                               !.again = NormalizeUrl(base2, util.n)]
    /\ UNCHANGED <<site, scr, rob, sto>>

UtilNormalizeNext == UtilNormalizeApply \/ UtilNormalizeAgain

\* URLs in every spelling of scheme, host, port, path and fragment.
CanonInputs ==
    {SiteUrl(scheme, host, port, path, frag) :
        scheme \in {"http", "HTTP", "https"}, host \in {"a.test", "A.test"},
        port \in {"", "80", "443"},
        path \in {<<>>, <<"/">>, <<"/", "b">>, <<"/", "/", "b">>},
        frag \in {"", "top"}}

\* canonicalize_url and resolve_url are called on two URLs, and canonicalize_url again
\* on its own result.
UtilCanonicalizeInit ==
    \E u \in CanonInputs, v \in CanonInputs :
        util = [fn |-> "canonicalize", step |-> "input", u |-> u, v |-> v,
                cu |-> u, cv |-> v, ru |-> u, rv |-> v, ccu |-> u]

UtilCanonicalizeApply ==
    /\ util.fn = "canonicalize"
    /\ util.step = "input"
    /\ util' = [util EXCEPT !.step = "applied",
                            !.cu = CanonicalizeUrl(util.u),
                            !.cv = CanonicalizeUrl(util.v),
                            !.ru = ResolveUrl(SiteSplit(SiteStart), util.u),
                            !.rv = ResolveUrl(SiteSplit(SiteStart), util.v),
                            !.ccu = CanonicalizeUrl(CanonicalizeUrl(util.u))]
    /\ UNCHANGED <<site, scr, rob, sto>>

UtilCanonicalizeNext == UtilCanonicalizeApply

MaxRows == 3        \* <tr> elements of a table
MaxCells == 4       \* <td>/<th> elements of a row

\* A <tr> with n cells, as the list of their texts.
TableRow(n) == [i \in 1..n |-> "x"]

\* The <tr> elements of an HTML table, in document order.
TableInputs ==
    UNION {[1..k -> {TableRow(n) : n \in 0..MaxCells}] : k \in 0..MaxRows}

\* `for tr in table.find_all("tr")`: a <tr> without cells is skipped.
RECURSIVE TableRows(_)
TableRows(trs) ==
    IF trs = <<>> THEN <<>>
    ELSE (IF Head(trs) = <<>> THEN <<>> ELSE <<Head(trs)>>) \o TableRows(Tail(trs))

\* max((len(r) for r in rows), default=0)
MaxLen(rows) ==
    IF rows = <<>> THEN 0
    ELSE CHOOSE n \in {Len(rows[i]) : i \in DOMAIN rows} :
             \A i \in DOMAIN rows : Len(rows[i]) <= n

\* The tables of extract_html for a document with one <table>: a table without rows
\* is left out.
ExtractTables(trs) ==
    LET rows == TableRows(trs)
    IN IF rows = <<>> THEN <<>>
       ELSE << [rows |-> rows, num_rows |-> Len(rows), num_cols |-> MaxLen(rows)] >>

\* The rows _process_html writes to the CSV file of a table.
CsvRows(table) ==
    [i \in DOMAIN table.rows |->
        table.rows[i] \o [j \in 1..(table.num_cols - Len(table.rows[i])) |-> ""]]

UtilTableInit ==
    \E trs \in TableInputs :
        util = [fn |-> "extract_html", step |-> "input", trs |-> trs, tables |-> <<>>,
                csv |-> <<>>]

UtilExtractHtml ==
    /\ util.fn = "extract_html"
    /\ util.step = "input"
    /\ util' = [util EXCEPT !.step = "extracted", !.tables = ExtractTables(util.trs)]
    /\ UNCHANGED <<site, scr, rob, sto>>

UtilWriteCsv ==
    /\ util.fn = "extract_html"
    /\ util.step = "extracted"
    /\ util' = [util EXCEPT !.step = "written",
                            !.csv = [i \in DOMAIN util.tables |-> CsvRows(util.tables[i])]]
    /\ UNCHANGED <<site, scr, rob, sto>>

UtilTableNext == UtilExtractHtml \/ UtilWriteCsv

(***************************************************************************)
(*                       scraper.storage.Storage                           *)
(***************************************************************************)
StoIdle == [conn |-> "off"]

StoCallers == 2     \* coroutines that call the store
StoMaxCalls == 3    \* calls of upsert_page in a run

StoCallerIds == 1..StoCallers

\* Page records: the key and two of the columns upsert_page writes.
StoRecord(url, status, title) == [url |-> url, status |-> status, title |-> title]

StoRecords ==
    {StoRecord(url, v[1], v[2]) : url \in {"http://ex.com", "http://ex.com/a"},
                                  v \in {<<200, "Home">>, <<404, "">>}}

NoRow == StoRecord("", 0, "")

\* Storage.__aenter__: with a db_path the connection is open and the table exists;
\* without one there is no connection.  `table` is the pages table as statements on
\* the connection see it, `committed` what is committed to the database file.
StoOpened(conn) ==
    [conn |-> conn, table |-> {}, committed |-> {},
     pc |-> [c \in StoCallerIds |-> "idle"], rec |-> [c \in StoCallerIds |-> NoRow],
     pos |-> [c \in StoCallerIds |-> 0], log |-> <<>>, calls |-> 0,
     listed |-> {}, listed_at |-> 0]

StoInit == \E conn \in {"open", "none"} : sto = StoOpened(conn)

\* An INSERT without the ON CONFLICT clause, on a table without the key.
StoInsertOnly(table, record) == table \cup {record}

\* INSERT ... ON CONFLICT(url) DO UPDATE SET every other column: the row of the
\* record's url, if there is one, is replaced by the record.
StoUpsert(table, record) == {row \in table : row.url # record.url} \cup {record}

\* A commit that writes nothing to the database file.
StoCommitNothing(s) == s

\* Connection.commit(): what the connection has written becomes the committed state.
StoCommit(s) == [s EXCEPT !.committed = s.table]

\* upsert_page up to `await self._conn.execute(...)`; without a connection it returns.
StoUpsertCall(c) ==
    /\ sto.conn # "off"
    /\ sto.pc[c] \in {"idle", "returned"}
    /\ sto.calls < StoMaxCalls
    /\ \E record \in StoRecords :
          sto' = [sto EXCEPT !.rec[c] = record, !.calls = @ + 1, !.pos[c] = 0,
                             !.pc[c] = IF sto.conn = "none" THEN "returned" ELSE "execute"]
    /\ UNCHANGED <<site, scr, rob, util>>

\* The statement has run on the connection; upsert_page goes on to
\* `await self._conn.commit()`.
StoExecuteDone(c) ==
    /\ sto.pc[c] = "execute"
    /\ sto' = [sto EXCEPT !.table = StoUpsert(@, sto.rec[c]),
                          !.log = Append(@, sto.rec[c]),
                          !.pos[c] = Len(sto.log) + 1,
                          !.pc[c] = "commit"]
    /\ UNCHANGED <<site, scr, rob, util>>

\* The commit has run; upsert_page returns.
StoCommitDone(c) ==
    /\ sto.pc[c] = "commit"
    /\ sto' = [StoCommit(sto) EXCEPT !.pc[c] = "returned"]
    /\ UNCHANGED <<site, scr, rob, util>>

\* Storage.get_all_urls
GetAllUrls(s) == IF s.conn = "none" THEN {} ELSE {row.url : row \in s.table}

StoGetAllUrls ==
    /\ sto.conn # "off"
    /\ sto.listed_at < Len(sto.log)
    /\ sto' = [sto EXCEPT !.listed = GetAllUrls(sto), !.listed_at = Len(sto.log)]
    /\ UNCHANGED <<site, scr, rob, util>>

StoNext ==
    \/ \E c \in StoCallerIds : StoUpsertCall(c)
    \/ \E c \in StoCallerIds : StoExecuteDone(c)
    \/ \E c \in StoCallerIds : StoCommitDone(c)
    \/ StoGetAllUrls

SpecNormalizeInit ==
    UtilNormalizeInit /\ site = SiteIdle /\ scr = ScrIdle /\ rob = RobIdle /\ sto = StoIdle

SpecNormalize == SpecNormalizeInit /\ [][UtilNormalizeNext]_vars

SpecCanonicalizeInit ==
    UtilCanonicalizeInit /\ site = SiteIdle /\ scr = ScrIdle /\ rob = RobIdle /\ sto = StoIdle

SpecCanonicalize == SpecCanonicalizeInit /\ [][UtilCanonicalizeNext]_vars

SpecTableInit ==
    UtilTableInit /\ site = SiteIdle /\ scr = ScrIdle /\ rob = RobIdle /\ sto = StoIdle

SpecTable == SpecTableInit /\ [][UtilTableNext]_vars

SpecStorageInit ==
    StoInit /\ site = SiteIdle /\ scr = ScrIdle /\ rob = RobIdle /\ util = UtilIdle

SpecStorage == SpecStorageInit /\ [][StoNext]_vars

SpecScenarioInit ==
    ScrScenarioInit /\ site = SiteIdle /\ rob = RobIdle /\ util = UtilIdle /\ sto = StoIdle

SpecScenario == SpecScenarioInit /\ [][ScrSoloNext]_vars

SpecSiteInit == SiteInit /\ scr = ScrIdle /\ rob = RobIdle /\ util = UtilIdle /\ sto = StoIdle

SpecSite == SpecSiteInit /\ [][SiteNext]_vars

SpecSiteLinksInit == SiteLinksInit /\ scr = ScrIdle /\ rob = RobIdle /\ util = UtilIdle /\ sto = StoIdle

SpecSiteLinks == SpecSiteLinksInit /\ [][SiteNext]_vars

SpecSiteRobotsInit == SiteRobotsInit /\ scr = ScrIdle /\ rob = RobIdle /\ util = UtilIdle /\ sto = StoIdle

SpecSiteRobots == SpecSiteRobotsInit /\ [][SiteNext]_vars

SpecSiteWideInit == SiteWideInit /\ scr = ScrIdle /\ rob = RobIdle /\ util = UtilIdle /\ sto = StoIdle

SpecSiteWide == SpecSiteWideInit /\ [][SiteNext]_vars

SpecScraperInit == ScrInit /\ site = SiteIdle /\ rob = RobIdle /\ util = UtilIdle /\ sto = StoIdle

SpecScraper == SpecScraperInit /\ [][ScrNext]_vars

SpecRobotsInit == RobInit /\ site = SiteIdle /\ scr = ScrIdle /\ util = UtilIdle /\ sto = StoIdle

SpecRobots == SpecRobotsInit /\ [][RobNext]_vars

SpecScraperBusyInit == ScrBusyInit /\ site = SiteIdle /\ rob = RobIdle /\ util = UtilIdle /\ sto = StoIdle

SpecScraperBusy == SpecScraperBusyInit /\ [][ScrNext]_vars

SpecCrawlersInit == SpecSiteInit \/ SpecScraperInit \/ SpecScraperBusyInit

SpecCrawlers == SpecCrawlersInit /\ [][SiteNext \/ ScrNext]_vars

(***************************************************************************)
(*                              Properties                                 *)
(***************************************************************************)

\* C1: in site_scraper, under any interleaving of the workers, every URL is put on
\* the work queue at most once per crawl, and a URL on the queue (the seed too) is
\* already in `seen`: the test of `seen` and the insertion are one atomic step.
C1_EachUrlQueuedOnce ==
    /\ \A u \in SiteUrls : site.puts[u] <= 1
    /\ \A i \in DOMAIN site.queue :
          site.queue[i].url # NoneUrl => site.queue[i].url \in site.seen

\* The seed page lists the same anchor twice and the anchor was queued once.
C1_Witness ==
    /\ Len(site.results) = 1
    /\ site.results[1].links = <<SiteB, SiteB>>
    /\ site.puts[SiteB] = 1
    /\ SiteB \in site.seen

\* C11: in site_scraper constructed with respect_robots=True, a URL that robots.txt
\* disallows for the crawler is never fetched and never recorded in `results`.
C11_DisallowedNeverFetched ==
    site.respect_robots =>
        /\ \A w \in SiteWorkers(site) :
              site.pc[w] \in {"fetch", "read"} => site.item[w].url \notin site.disallowed
        /\ \A i \in DOMAIN site.results : site.results[i].url \notin site.disallowed

\* C2: in scraper, over the whole crawl no URL is appended to self.queue twice, also
\* when two pages (or a seed and a page) name the same URL before it is dequeued.
C2_NoUrlAppendedTwice == scr.twice = {}

\* The key the two spellings of a URL share: host in lower case, no trailing slash.
CanonicalKey(u) ==
    LET v == [i \in DOMAIN u |-> IF i = 2 THEN HostLower(u[i]) ELSE u[i]]
    IN IF Len(v) > 2 /\ Last(v) = "/" THEN SubSeq(v, 1, Len(v) - 1) ELSE v

\* C3: in scraper, two discovered links that differ only in the letter case of the
\* host and a trailing slash are normalized to the same key: the links of a fetched
\* page, and the discovered URLs on the queue, hold no two entries with the same key.
C3_CaseAndSlashSameKey ==
    /\ \A w \in ScrWorkers : \A i, j \in DOMAIN scr.result[w].links :
          CanonicalKey(scr.result[w].links[i]) = CanonicalKey(scr.result[w].links[j])
              => i = j
    /\ \A i, j \in DOMAIN scr.queue :
          (/\ scr.queue[i].depth >= 1
           /\ scr.queue[j].depth >= 1
           /\ CanonicalKey(scr.queue[i].url) = CanonicalKey(scr.queue[j].url))
              => scr.queue[i].url = scr.queue[j].url

\* C4: in site_scraper with max_pages = M >= 1 and N workers, no fetch is started by
\* a worker that sees len(results) >= M, and len(results) never exceeds M + N.
C4_BudgetOvershootBounded ==
    site.max_pages >= 1 =>
        /\ ~site.over_budget_fetch
        /\ Len(site.results) <= site.max_pages + Cardinality(SiteWorkers(site))

\* C5: in site_scraper, once the page budget is reached no worker is cancelled between
\* dequeuing an item and recording its result: every fetch in flight is recorded
\* before crawl() cancels the workers.
C5_InFlightFetchesRecorded == SiteBudgetHit(site) => site.lost = {}

\* C6: in scraper with max_pages = M the number of fetches started never exceeds M,
\* and neither does the number of stored records, the count crawl() returns.
C6_FetchesWithinBudget ==
    /\ scr.fetches <= scr.max_pages
    /\ Cardinality(scr.fetched) <= scr.max_pages
    /\ scr.stored <= scr.fetches

\* The crawl returned with the budget used up and work left on the deque.
C6_Witness ==
    /\ scr.main = "returned"
    /\ scr.max_pages >= 1
    /\ scr.fetches = scr.max_pages
    /\ scr.queue # <<>>

\* C7: in both crawlers only seeds are queued at depth 0, no queue item is deeper
\* than max_depth, and with max_depth = 0 only the seeds are fetched.
C7_DepthBounded ==
    /\ \A i \in DOMAIN site.queue :
          site.queue[i].url # NoneUrl =>
              /\ (~site.max_depth_none => site.queue[i].depth <= site.max_depth)
              /\ (site.queue[i].depth = 0 => site.queue[i].url = SiteStart)
    /\ (~site.max_depth_none /\ site.max_depth = 0) =>
          /\ \A i \in DOMAIN site.results : site.results[i].url = SiteStart
          /\ \A w \in SiteWorkers(site) : site.item[w].url \in {SiteStart, NoneUrl}
    /\ \A i \in DOMAIN scr.queue :
          /\ scr.queue[i].depth <= scr.max_depth
          /\ (scr.queue[i].depth = 0 => scr.queue[i].url \in Range(scr.start_urls))
    /\ scr.max_depth = 0 => scr.fetched \subseteq Range(scr.start_urls)

\* A crawl with max_depth = 0 returned after a seed page with links: only it is recorded.
C7_Witness ==
    /\ site.main = "returned"
    /\ ~site.max_depth_none
    /\ site.max_depth = 0
    /\ Len(site.results) = 1
    /\ site.results[1].links # <<>>

\* C8: RobotsCache requests robots.txt at most once per origin, whatever the callers
\* and their interleaving, also when the request failed; a caller that returned read
\* the cached result.
C8_RobotsRequestedOnce ==
    /\ \A o \in Origins :
          /\ rob.requests[o] <= 1
          /\ Cardinality({c \in RobCallerIds :
                             rob.call[c].pc = "get" /\ rob.call[c].origin = o}) <= 1
    /\ \A c \in RobCallerIds :
          rob.call[c].pc = "done" =>
              rob.parsers[rob.call[c].origin] # <<>> /\ rob.requests[rob.call[c].origin] = 1

\* The one request of an origin failed, its caller returned, a caller that waited on
\* the lock is about to read the cached result and a third one waits behind it.
C8_Witness ==
    \E o \in Origins :
        /\ rob.requests[o] = 1
        /\ rob.outcome[o] # <<>>
        /\ rob.outcome[o][1].exc # ""
        /\ \A c \in RobCallerIds : rob.call[c].origin = o
        /\ \E c \in RobCallerIds : rob.call[c].pc = "done"
        /\ \E c \in RobCallerIds : rob.call[c].pc = "woken"
        /\ \E c \in RobCallerIds : rob.call[c].pc = "wait_lock"

\* C9: when the robots.txt request of an origin raised a network error or timed out,
\* allowed() returns true for every URL of the origin, get_sitemaps() returns the empty
\* list, and no caller sees the exception.
C9_RobotsFailOpen ==
    \A c \in RobCallerIds :
        /\ rob.call[c].pc # "raised"
        /\ (/\ rob.call[c].pc = "done"
            /\ rob.outcome[rob.call[c].origin] # <<>>
            /\ rob.outcome[rob.call[c].origin][1].exc # "")
               => rob.call[c].ret_allowed /\ rob.call[c].ret_sitemaps = <<>>

\* After a timeout, allowed() and get_sitemaps() returned for the same origin.
C9_Witness ==
    \E c, d \in RobCallerIds :
        /\ rob.call[c].pc = "done"
        /\ rob.call[c].op = "allowed"
        /\ rob.call[c].path = PathPrivate
        /\ rob.outcome[rob.call[c].origin] = <<RobRaised("ReadTimeout")>>
        /\ rob.call[c].ret_allowed
        /\ rob.call[d].pc = "done"
        /\ rob.call[d].op = "get_sitemaps"
        /\ rob.call[d].origin = rob.call[c].origin
        /\ rob.call[d].ret_sitemaps = <<>>

\* C10: when the robots.txt response has a status outside 200..299, whatever its
\* body, allowed() is true for every URL of the origin and get_sitemaps() is empty.
C10_NonSuccessStatusUnrestricted ==
    \A c \in RobCallerIds :
        (/\ rob.call[c].pc = "done"
         /\ rob.outcome[rob.call[c].origin] # <<>>
         /\ rob.outcome[rob.call[c].origin][1].exc = ""
         /\ rob.outcome[rob.call[c].origin][1].status \notin 200..299)
            => rob.call[c].ret_allowed /\ rob.call[c].ret_sitemaps = <<>>

\* C12: in scraper, _get_limiter creates exactly one AsyncLimiter per host, whatever
\* the interleaving of the workers, the registry entry of a host is never replaced,
\* and every request to the host goes through that instance.
C12_OneLimiterPerHost ==
    /\ \A h \in ScrHosts :
          /\ scr.limiters_made[h] <= 1
          /\ (scr.per_host_limiter[h] # 0 <=> scr.limiters_made[h] = 1)
    /\ \A g, h \in ScrHosts :
          (scr.per_host_limiter[g] # 0 /\ scr.per_host_limiter[g] = scr.per_host_limiter[h])
              => g = h
    /\ \A w \in ScrWorkers :
          scr.pc[w] = "fetch" =>
              /\ scr.limiter[w] # 0
              /\ scr.limiter[w] = scr.per_host_limiter[GetHost(scr.cur[w].url)]

\* After a page was stored, two workers request pages of the same host at the same
\* time through the one limiter of the host.
C12_Witness ==
    \E v, w \in ScrWorkers :
        /\ v # w
        /\ scr.stored >= 1
        /\ scr.pc[v] = "fetch"
        /\ scr.pc[w] = "fetch"
        /\ GetHost(scr.cur[v].url) = GetHost(scr.cur[w].url)
        /\ scr.limiter[v] = scr.limiter[w]
        /\ scr.limiters_made[GetHost(scr.cur[v].url)] = 1

\* C13: in both crawlers the page fetches in flight never exceed the configured
\* concurrency: in scraper every fetch holds one slot of the semaphore, which never
\* runs out; in site_scraper there are `concurrency` workers with one item each.
C13_FetchesInFlightBounded ==
    /\ scr.main # "off" =>
          LET inflight == Cardinality({w \in ScrWorkers : scr.pc[w] = "fetch"})
          IN /\ inflight <= Concurrency
             /\ scr.sem = Concurrency - inflight
             /\ scr.sem >= 0
    /\ site.main # "off" =>
          /\ Cardinality(SiteWorkers(site)) = site.concurrency
          /\ Cardinality({w \in SiteWorkers(site) : site.pc[w] \in {"fetch", "read"}})
                <= site.concurrency

\* After a page was stored, every worker of scraper is fetching and the semaphore has
\* no slot left.
C13_Witness ==
    /\ scr.main = "gather"
    /\ scr.stored >= 1
    /\ \A w \in ScrWorkers : scr.pc[w] = "fetch"
    /\ scr.sem = 0

\* C14: in scraper a URL is requested at most 3 times, a request is repeated only
\* after an exception of a retried type, and a received status ends the fetch.
C14_AtMostThreeRequests ==
    \A w \in ScrWorkers :
        /\ scr.attempt[w] <= StopAfterAttempt
        /\ (scr.pc[w] = "fetch" /\ scr.attempt[w] > 1) => ScrRetries(scr.last_error[w])
        /\ scr.pc[w] = "upsert" => scr.result[w].status \in ScrStatusCodes

\* The third request of a URL was answered with 404, after two transport failures.
C14_Witness ==
    \E w \in ScrWorkers :
        /\ scr.pc[w] = "upsert"
        /\ scr.attempt[w] = StopAfterAttempt
        /\ ScrRetries(scr.last_error[w])
        /\ scr.result[w].status = 404

\* C15: in scraper a URL whose three attempts all failed with a transport error does
\* not abort the crawl: no worker leaves its loop because of it, and crawl() raises
\* only for an exception that is not a transport error.
C15_RetryExhaustionIsLocal ==
    /\ \A w \in ScrWorkers : ~(scr.pc[w] = "crashed" /\ ScrRetries(scr.last_error[w]))
    /\ scr.main = "raised" =>
          \E w \in ScrWorkers : scr.pc[w] = "crashed" /\ ~ScrRetries(scr.last_error[w])

\* C16: in site_scraper a failed request does not abort the crawl: after one, no
\* worker has ended with an exception and crawl() does not raise.
C16_RequestFailureIsLocal ==
    (\E i \in DOMAIN site.results : site.results[i].error = "request_failed") =>
        /\ \A w \in SiteWorkers(site) : site.pc[w] # "crashed"
        /\ site.main # "raised"

\* C17: in site_scraper a URL whose request failed has exactly one PageResult, with
\* an error marker, status 0 and no links; in scraper a URL whose retries are
\* exhausted is recorded in the store.
C17_FailedUrlRecordedOnce ==
    /\ \A i \in DOMAIN site.results :
          site.results[i].error = "request_failed" =>
              /\ site.results[i].status = 0
              /\ site.results[i].links = <<>>
              /\ \A j \in DOMAIN site.results :
                    site.results[j].url = site.results[i].url => j = i
    /\ \A w \in ScrWorkers :
          (scr.pc[w] = "crashed" /\ ScrRetries(scr.last_error[w]))
              => scr.cur[w].url \in scr.db

\* C18: in site_scraper a response whose status is outside 200..299 is recorded with
\* that status, without extracted content and without links, and none of its links is
\* put on the queue.  (Field http_status remembers the status each URL was answered
\* with; records of an exception during the processing are left aside.)
C18_NonSuccessRecordedAsIs ==
    \A i \in DOMAIN site.results :
        LET r == site.results[i]
        IN (/\ site.http_status[r.url] # 0
            /\ site.http_status[r.url] \notin 200..299
            /\ r.error \in {"", "http"})
               => /\ r.status = site.http_status[r.url]
                  /\ r.kind = "none"
                  /\ r.links = <<>>

\* The host of the URL equals a member of the whitelist or is a subdomain of one.
HostInWhitelist(url, whitelist) ==
    \E d \in whitelist :
        \/ HostLower(GetHost(url)) = d
        \/ HostLower(GetHost(url)) = "sub.ex.com" /\ d = "ex.com"

\* C19: in scraper no URL outside the domain whitelist and no URL that matches the
\* exclude pattern is ever fetched, seed URLs included.
C19_FilteredNeverFetched ==
    \A u \in scr.fetched :
        /\ ~ExcludeMatches(scr, u)
        /\ scr.domain_whitelist # {} => HostInWhitelist(u, scr.domain_whitelist)

\* C20: in scraper, with a non-empty whitelist, a discovered link is accepted by
\* _should_enqueue only if its host is a member of the whitelist or a subdomain of a
\* member; a host without a registrable domain that is not in the whitelist is
\* rejected.
C20_AcceptedOnlyInsideWhitelist ==
    \A i \in DOMAIN scr.queue :
        (scr.queue[i].depth >= 1 /\ scr.domain_whitelist # {})
            => HostInWhitelist(scr.queue[i].url, scr.domain_whitelist)

\* C24: in both crawlers the seeds are normalized like discovered links before they
\* are queued and marked seen, so that a link back to a seed in another spelling is not
\* fetched: in scraper every seed on the queue is in normalized form, and no two
\* fetched URLs are spellings of the same seed.
C24_SeedsNormalizedLikeLinks ==
    /\ \A i \in DOMAIN scr.queue :
          scr.queue[i].depth = 0
              => NormalizeUrl(scr.queue[i].url, scr.queue[i].url) = scr.queue[i].url
    /\ \A i \in DOMAIN scr.start_urls : \A u, v \in scr.fetched :
          (/\ CanonicalKey(u) = CanonicalKey(scr.start_urls[i])
           /\ CanonicalKey(v) = CanonicalKey(scr.start_urls[i]))
              => u = v

\* C30: in scraper with resume=True, no URL that the store held when the crawl started
\* is fetched or upserted during the crawl, be it a seed or linked from a fetched page.
C30_ResumeSkipsStoredUrls ==
    scr.resume =>
        \A u \in scr.existing :
            /\ u \notin scr.fetched
            /\ u \notin scr.upserted
            /\ \A w \in ScrWorkers : scr.pc[w] \in {"fetch", "upsert"} => scr.cur[w].url # u

\* A resumed crawl over a store that holds the seed /a has taken /a off the queue and
\* has fetched the other seed, whose page links to /a.
C30_Witness ==
    /\ scr.resume
    /\ ScrA \in scr.existing
    /\ scr.queue = <<>>
    /\ \E w \in ScrWorkers :
          /\ scr.pc[w] = "upsert"
          /\ scr.cur[w].url = ScrRoot
          /\ \E i \in DOMAIN scr.result[w].links : scr.result[w].links[i] = ScrA

\* C21: in site_scraper the site boundary is the registrable domain of the seed: an
\* anchor to a subdomain of the seed's host, once its page is processed, is in the
\* queue's seen set, and an anchor to another domain never is.
C21_SubdomainInsideBoundary ==
    /\ SiteSub \in site.anchors => SiteSub \in site.seen
    /\ SiteOther \notin site.seen

\* C26: the links recorded for a page hold each normalized link once, in order of first
\* occurrence: no PageResult of site_scraper lists a link twice.
C26_LinksListedOnce ==
    \A r \in DOMAIN site.results :
        \A i, j \in DOMAIN site.results[r].links :
            site.results[r].links[i] = site.results[r].links[j] => i = j

\* C27: a successful response is processed as HTML if and only if its Content-Type is
\* text/html, whatever its URL ends in: whenever a worker of site_scraper finishes
\* reading a response body and appends a result without error, that result is an HTML
\* result exactly when the Content-Type of the response was text/html.
C27_HtmlIffContentType ==
    [][\A w \in SiteWorkers(site) :
          (/\ site.pc[w] = "read"
           /\ site'.pc[w] # "read"
           /\ Len(site'.results) = Len(site.results) + 1
           /\ Last(site'.results).error = "")
              => (Last(site'.results).kind = "html" <=> site.resp[w].ctype = "text/html")]_vars

\* C22: _normalize_url is idempotent and leaves the query alone: normalizing a result
\* again, against any base, returns it unchanged, and the query string of a result is
\* the query string of the joined URL.
C22_NormalizeIdempotent ==
    /\ util.step = "twice" => util.again = util.n
    /\ (util.step \in {"once", "twice"} /\ util.n # None)
          => QueryOf(util.n) = QueryOf(UrlDefrag(UrlJoin(util.base_url, util.href)))

\* What two URLs share when they differ only in fragment, letter case of scheme or
\* host, default port, repeated path separators, or empty path versus "/".
SpellingKey(u) ==
    LET scheme == SchemeLower(u.scheme)
        path == CollapseSlashes(u.path)
    IN [scheme |-> scheme,
        host |-> IF u.host = "A.test" THEN "a.test" ELSE u.host,
        port |-> IF (scheme = "http" /\ u.port = "80") \/ (scheme = "https" /\ u.port = "443")
                 THEN "" ELSE u.port,
        path |-> IF path = <<>> THEN <<"/">> ELSE path]

\* C23: canonicalize_url and resolve_url map two URLs that differ only in fragment,
\* letter case of scheme or host, default port, repeated path separators, or empty
\* path versus "/" to the same URL, and canonicalize_url is idempotent.
C23_SpellingsCanonicalizeAlike ==
    util.step = "applied" =>
        /\ SpellingKey(util.u) = SpellingKey(util.v)
              => (util.cu = util.cv /\ util.ru = util.rv)
        /\ util.ccu = util.cu

\* C25: every table extract_html returns reports num_cols equal to the length of its
\* longest row, and every row of its `rows` has exactly num_cols cells.
C25_TableRowsPadded ==
    \A t \in DOMAIN util.tables :
        /\ \A i \in DOMAIN util.tables[t].rows :
              Len(util.tables[t].rows[i]) <= util.tables[t].num_cols
        /\ \E i \in DOMAIN util.tables[t].rows :
              Len(util.tables[t].rows[i]) = util.tables[t].num_cols
        /\ \A i \in DOMAIN util.tables[t].rows :
              Len(util.tables[t].rows[i]) = util.tables[t].num_cols

\* The statements run so far that wrote the row of a url.
StoWrites(url) == {i \in DOMAIN sto.log : sto.log[i].url = url}

\* C28: after any sequence of upsert_page calls an open store holds one row per url,
\* with the fields of the most recent upsert of that url; repeating an upsert leaves
\* the store unchanged; get_all_urls returns the urls upserted so far; and when no
\* call is under way all of it is committed.
C28_OneRowPerUrlLatestFields ==
    sto.conn = "open" =>
        /\ \A row \in sto.table :
              /\ StoWrites(row.url) # {}
              /\ \A i \in StoWrites(row.url) :
                    (\A j \in StoWrites(row.url) : j <= i) => sto.log[i] = row
        /\ \A i \in DOMAIN sto.log :
              Cardinality({row \in sto.table : row.url = sto.log[i].url}) = 1
        /\ \A record \in StoRecords :
              StoUpsert(StoUpsert(sto.table, record), record) = StoUpsert(sto.table, record)
        /\ GetAllUrls(sto) = {sto.log[i].url : i \in DOMAIN sto.log}
        /\ sto.listed = {sto.log[i].url : i \in 1..sto.listed_at}
        /\ (\A c \in StoCallerIds : sto.pc[c] \in {"idle", "returned"})
              => sto.committed = sto.table

\* A url has been upserted twice with different fields, another url once, every call
\* has returned and get_all_urls has listed both.
C28_Witness ==
    /\ sto.conn = "open"
    /\ \E i, j \in DOMAIN sto.log :
          i < j /\ sto.log[i].url = sto.log[j].url /\ sto.log[i] # sto.log[j]
    /\ Cardinality(sto.listed) = 2
    /\ sto.listed_at = Len(sto.log)
    /\ \A c \in StoCallerIds : sto.pc[c] = "returned"

\* C29: concurrent upsert_page calls on the shared connection are atomic: every row a
\* reader can see, committed or not, is a whole record that some call wrote, and when
\* a call has returned the url of its record has a committed row, which is its record
\* or the record of an upsert of that url that ran after it.
C29_ConcurrentUpsertsAtomic ==
    sto.conn = "open" =>
        /\ \A row \in sto.table \cup sto.committed :
              \E i \in DOMAIN sto.log : sto.log[i] = row
        /\ \A c \in StoCallerIds :
              sto.pc[c] = "returned" =>
                  \E row \in sto.committed :
                      /\ row.url = sto.rec[c].url
                      /\ \E i \in DOMAIN sto.log : i >= sto.pos[c] /\ sto.log[i] = row

\* One caller has returned while the other, whose statement ran between the first
\* caller's statement and commit, has yet to commit; both rows are committed.
C29_Witness ==
    /\ sto.conn = "open"
    /\ \E c, d \in StoCallerIds :
          /\ sto.pc[c] = "returned"
          /\ sto.pc[d] = "commit"
          /\ sto.pos[c] < sto.pos[d]
          /\ sto.rec[c].url # sto.rec[d].url
          /\ {sto.rec[c], sto.rec[d]} \subseteq sto.committed

\* C31: the crawl of seed http://a.test/ with max_depth 1 and the default whitelist,
\* whose root page links to /b and https://external.test/, runs and persists exactly
\* the root and /b; https://external.test/ is never queued or fetched.
C31_ScenarioPersistsTwoPages ==
    /\ scr.main # "type_error"
    /\ \A u \in scr.appended \cup scr.fetched : GetHost(u) # "external.test"
    /\ scr.main = "returned" => (scr.stored = 2 /\ scr.upserted = {ScrTestRoot, ScrTestB})

\* C32: in scraper a worker that finds the queue empty while another worker has an
\* item in flight does not terminate: while the crawl runs and page budget remains,
\* no worker has returned as long as some worker is fetching or storing a page.
C32_IdleWorkerWaits ==
    (/\ scr.main = "gather"
     /\ Cardinality(scr.seen) < scr.max_pages
     /\ \E v \in ScrWorkers : scr.pc[v] \in {"fetch", "upsert"})
        => \A w \in ScrWorkers : scr.pc[w] # "done"

\* The workers of site_scraper between dequeuing an item and finishing it.
SiteProcessing == {w \in SiteWorkers(site) : site.pc[w] \in {"fetch", "read"}}

\* C33: in site_scraper the unfinished-task count of the queue equals the items in the
\* queue plus the items being processed, and queue.join() completes only when the queue
\* is empty and no worker is between dequeuing an item and finishing it.
C33_JoinOnlyWhenAllItemsDone ==
    /\ site.main = "joining"
          => site.unfinished = Len(site.queue) + Cardinality(SiteProcessing)
    /\ site.main = "woken" => (site.queue = <<>> /\ SiteProcessing = {})

\* C35: in site_scraper tasks_in_progress is the number of workers between dequeuing an
\* item and finishing it, and stays between 0 and `concurrency`.
C35_InProgressCountsWorkers ==
    /\ site.tasks_in_progress >= 0
    /\ site.tasks_in_progress <= site.concurrency
    /\ site.main = "joining" => site.tasks_in_progress = Cardinality(SiteProcessing)

\* Crawls of both crawlers over small sites, with and without page budget.
SpecCrawlersFairInit == SpecSiteRobotsInit \/ SpecSiteLinksInit \/ SpecScraperBusyInit

\* Every request, sleep and store call returns and the event loop runs every task that
\* is ready: a step that is possible is eventually taken.
SpecCrawlersFair ==
    SpecCrawlersFairInit /\ [][SiteNext \/ ScrNext]_vars /\ WF_vars(SiteNext \/ ScrNext)

\* crawl() of the crawler that was started has returned or raised.
CrawlFinished ==
    /\ site.main # "off" => site.main \in {"returned", "raised"}
    /\ scr.main # "off" => scr.main \in {"returned", "raised", "type_error"}

\* C34: under fair scheduling, with every request returning, crawl() of each crawler
\* eventually finishes, whether the queue runs empty or the page budget is reached.
C34_CrawlTerminates == <>CrawlFinished

\* A crawl of site_scraper with a page budget has returned with the budget used up and
\* links left undone; it had waited in join() for its workers.
C34_Witness ==
    /\ site.main = "returned"
    /\ site.max_pages # 0
    /\ Len(site.results) >= site.max_pages
    /\ site.total_discovered > Len(site.results)

\* C36: in scraper with respect_robots enabled the crawl runs and every dequeued URL
\* goes through robots check, acquisition of its host's limiter and request in that
\* order: the crawler is constructed, and a worker in a request holds the limiter of
\* the host of its URL.
C36_RobotsThenLimiterThenRequest ==
    scr.respect_robots =>
        /\ scr.main # "type_error"
        /\ \A w \in ScrWorkers :
              scr.pc[w] = "fetch"
                  => /\ scr.limiter[w] # 0
                     /\ scr.limiter[w] = scr.per_host_limiter[GetHost(scr.cur[w].url)]

\* C37: in scraper each URL string is passed to fetch_and_extract at most once per
\* crawl, even when the deque holds it several times: the number of calls equals the
\* number of distinct URLs fetched.
C37_EachUrlFetchedOnce == scr.fetches = Cardinality(scr.fetched)

\* A URL that was put on the deque twice has been fetched, the deque has been emptied
\* and the crawl has returned.
C37_Witness ==
    /\ \E u \in scr.twice : u \in scr.fetched
    /\ scr.queue = <<>>
    /\ scr.main = "returned"

ScrPreloaded == IF scr.resume THEN Cardinality(scr.existing) ELSE 0

\* C39: in scraper the page budget is charged for every URL inserted into `seen`:
\* len(seen) never exceeds the larger of max_pages and the number of preloaded URLs,
\* and the fetches started in a run are at most max(0, max_pages - preloaded); a URL
\* dequeued as a duplicate of a seen URL starts no fetch and adds nothing to `seen`.
C39_BudgetChargedPerSeenUrl ==
    scr.main # "type_error" =>
        /\ Cardinality(scr.seen) <= (IF scr.max_pages >= ScrPreloaded
                                     THEN scr.max_pages ELSE ScrPreloaded)
        /\ scr.fetches <= (IF scr.max_pages >= ScrPreloaded
                           THEN scr.max_pages - ScrPreloaded ELSE 0)
        /\ Cardinality(scr.seen) = ScrPreloaded + scr.fetches

\* A resumed crawl over a store of one URL has used up its budget on the preloaded URL
\* and one fetch, and has returned with a link left on the deque.
C39_Witness ==
    /\ scr.resume
    /\ ScrPreloaded = 1
    /\ scr.fetches = scr.max_pages - 1
    /\ scr.fetches >= 1
    /\ scr.queue # <<>>
    /\ scr.main = "returned"

====
